---- MODULE Spec2Model ----
(***************************************************************************)
(* Model of fast_glcm/calc.py: the per-pixel grey-level co-occurrence      *)
(* matrix (fast_glcm) and the statistics reduced from it.                  *)
(*                                                                         *)
(* A behaviour is one call of one of the module's functions.  Init draws   *)
(* the image and the arguments; Digitize, Shift and Accumulate are the     *)
(* three steps of fast_glcm, which every function of the module runs       *)
(* first; the last step is the return of the function that was called:     *)
(* fast_glcm returns the tensor, a statistic its reduction of the tensor.  *)
(* pc is the position in the call: "start", "digitized", "shifted",        *)
(* "built", then "returned" or "raised".                                   *)
(*                                                                         *)
(* Pixels are addressed <<y, x>>, 0-based, as the arrays of the source     *)
(* are.  A level map holds -1 for an intensity below the first bin edge    *)
(* and levels for one at or above the last, as np.digitize(...) - 1 does.  *)
(*                                                                         *)
(* Numbers.                                                                *)
(*   - the bin edges of np.linspace are binary64 numbers, computed with    *)
(*     the roundings of the source: an edge that is a whole number in      *)
(*     exact arithmetic can come out one unit in the last place above it,  *)
(*     and then the intensity on it falls in the bin below;                *)
(*   - distance*cos(angle) and distance*sin(-angle) are numerators over    *)
(*     TrigDen, read from a table of the angles drawn;                     *)
(*   - warpAffine's coordinates are its own fixed point (AB_BITS);         *)
(*   - mean and homogeneity are exact rationals <<numerator,               *)
(*     denominator>>, the float32 roundings of their sums left out;        *)
(*   - np.sqrt and np.log are kept as terms: std and energy are sqrt of    *)
(*     the exact number under the root, entropy is the sum of -p*log(p)    *)
(*     over the family of its exact p.                                     *)
(* The float32 tensor holds counts of at most 255, which float32           *)
(* represents exactly, so the tensor is kept as integers.                  *)
(***************************************************************************)
EXTENDS Integers, FiniteSets, Sequences, TLC

(***************************************************************************)
(* Bounds of the inputs drawn.                                             *)
(***************************************************************************)
MaxW == 3
MaxDistance == 2
MaxLevels == 14

(* <<h, w>>: one-row images up to MaxW wide, and the 2 x 2 image *)
Shapes == {<<1, ww>> : ww \in 1..MaxW} \cup {<<2, 2>>}

(* the 1 x 1 and 1 x 2 images *)
SmallShapes == {<<1, 1>>, <<1, 2>>}

(* the one-row images *)
RowShapes == {<<1, ww>> : ww \in 1..MaxW}

(* with Ranges: intensities below vmin, inside [vmin, vmax] and above vmax *)
Intensities == {0, 100, 255}

(* <<vmin, vmax>>, vmin < vmax; values outside the range are not valid *)
Ranges == {<<0, 255>>, <<50, 200>>}
BadRanges == {<<100, 100>>}

LevelsSet == {1, 4}
BadLevels == {0}

(***************************************************************************)
(* The quantization alone is drawn over every levels up to MaxLevels.      *)
(* With 14 levels the edge 7 of the ranges <<0, 115>> and <<10, 241>> is   *)
(* 58 and 126 in exact arithmetic and one unit in the last place more in   *)
(* binary64; the intensities 58 and 126 lie on it.                         *)
(***************************************************************************)
QuantIntensities == {0, 58, 100, 126, 255}

QuantRanges == Ranges \cup {<<0, 115>>, <<10, 241>>}

QuantLevels == 1..MaxLevels

(* 16 is the least kernel_size whose window holds more than 255 pixels *)
KernelSizes == {1, 3, 16}

Distances == 1..MaxDistance
BadDistances == {0}

(* degrees *)
Angles == {0, 60, 240}

VARIABLES h, w, img, vmin, vmax, levels, ks, distance, angle,
          pc, call, gl1, gl2, glcm, out

vars == <<h, w, img, vmin, vmax, levels, ks, distance, angle,
          pc, call, gl1, gl2, glcm, out>>

args == <<h, w, img, vmin, vmax, levels, ks, distance, angle>>

None == "None"

Shape(hh, ww) == (0..(hh - 1)) \X (0..(ww - 1))

Pixels == Shape(h, w)

(***************************************************************************)
(* binary64 arithmetic, as far as np.linspace needs it.  A non-negative    *)
(* number is held in fixed point, <<n, f1, f2, f3>> for                    *)
(* n + f1/Limb + f2/Limb^2 + f3/Limb^3 with every f below Limb: FracBits   *)
(* bits after the point, which hold every binary64 number from 2^-19 up    *)
(* to 2^24 exactly.  The bit of weight 2^-i is Bit(x, i), i <= FracBits.   *)
(***************************************************************************)
MantissaBits == 53

LimbBits == 24

Limb == 2 ^ LimbBits

FracBits == 3 * LimbBits

FromInt(n) == <<n, 0, 0, 0>>

IsZero(x) == x = FromInt(0)

Bit(x, i) ==
    IF i <= 0 THEN (x[1] \div (2 ^ (0 - i))) % 2
    ELSE LET t == (i - 1) \div LimbBits
         IN  (x[t + 2] \div (2 ^ (LimbBits * (t + 1) - i))) % 2

(* floor(log2(x)) of a number that is not zero *)
Exponent(x) ==
    IF x[1] > 0
    THEN CHOOSE e \in 0..LimbBits : 2 ^ e <= x[1] /\ x[1] < 2 ^ (e + 1)
    ELSE 0 - (CHOOSE i \in 1..FracBits :
                  Bit(x, i) = 1 /\ \A j \in 1..(i - 1) : Bit(x, j) = 0)

(* the bits of weight below 2^-q cleared *)
TruncateLimb(x, t, q) ==
    LET keep == q - LimbBits * (t - 2)
    IN  IF keep >= LimbBits THEN x[t]
        ELSE IF keep <= 0 THEN 0
        ELSE x[t] - (x[t] % (2 ^ (LimbBits - keep)))

Truncate(x, q) ==
    <<x[1], TruncateLimb(x, 2, q), TruncateLimb(x, 3, q), TruncateLimb(x, 4, q)>>

(* limbs that outgrew Limb carried into the next *)
Carry(x) ==
    LET s3 == x[3] + (x[4] \div Limb)
        s2 == x[2] + (s3 \div Limb)
    IN  <<x[1] + (s2 \div Limb), s2 % Limb, s3 % Limb, x[4] % Limb>>

(* 2^-q added, 1 <= q <= FracBits *)
AddUlp(x, q) ==
    LET t == (q - 1) \div LimbBits
        u == 2 ^ (LimbBits * (t + 1) - q)
    IN  Carry(<<x[1],
                x[2] + (IF t = 0 THEN u ELSE 0),
                x[3] + (IF t = 1 THEN u ELSE 0),
                x[4] + (IF t = 2 THEN u ELSE 0)>>)

(***************************************************************************)
(* The binary64 number nearest to x, ties to the even mantissa: x keeps    *)
(* MantissaBits bits from its leading one.  sticky: the number rounded is  *)
(* x plus something positive below 2^-FracBits.                            *)
(***************************************************************************)
RoundNearestEven(x, sticky) ==
    IF IsZero(x) THEN x
    ELSE LET q == (MantissaBits - 1) - Exponent(x)
             down == Truncate(x, q)
             rest == sticky \/ \E i \in (q + 2)..FracBits : Bit(x, i) = 1
         IN  IF q >= FracBits THEN x
             ELSE IF Bit(x, q + 1) = 1 /\ (rest \/ Bit(x, q) = 1)
             THEN AddUlp(down, q)
             ELSE down

(* a / b of two integer-valued binary64 numbers, 0 <= a, 0 < b < 128 *)
fdiv(a, b) ==
    LET r1 == a % b
        r2 == (r1 * Limb) % b
        r3 == (r2 * Limb) % b
        r4 == (r3 * Limb) % b
    IN  RoundNearestEven(<<a \div b, (r1 * Limb) \div b, (r2 * Limb) \div b,
                           (r3 * Limb) \div b>>, r4 # 0)

(* k * x of an integer-valued k, 0 <= k < 128 *)
fmul(k, x) ==
    RoundNearestEven(Carry(<<k * x[1], k * x[2], k * x[3], k * x[4]>>), FALSE)

(* x + n of an integer-valued n >= 0 *)
fadd(x, n) == RoundNearestEven(<<x[1] + n, x[2], x[3], x[4]>>, FALSE)

(* x <= n of an integer-valued n *)
fle(x, n) == x[1] < n \/ (x[1] = n /\ x[2] = 0 /\ x[3] = 0 /\ x[4] = 0)

(***************************************************************************)
(* np.linspace(start, stop, num), endpoint=True, for start <= stop:        *)
(*   div = num - 1;  step = (stop - start) / div                           *)
(*   y = arange(0, num) * step + start;  y[-1] = stop  (num > 1)           *)
(* every operation rounded to binary64.  A single sample (div = 0) is      *)
(* 0 * (stop - start) + start.                                             *)
(***************************************************************************)
linspace(start, stop, num) ==
    LET div == num - 1
        step == IF div > 0 THEN fdiv(stop - start, div) ELSE FromInt(0)
        y == [k \in 0..(num - 1) |->
                 IF num > 1 /\ k = num - 1 THEN FromInt(stop)
                 ELSE fadd(fmul(k, step), start)]
    IN  IF y \in [0..(num - 1) -> Seq(Nat)] THEN y ELSE y

(***************************************************************************)
(* np.digitize(x, bins), right=False, bins non-decreasing (as they are for *)
(* every range drawn, vmin <= vmax + 1):                                   *)
(* searchsorted(bins, x, side='right'), the number of edges <= x.          *)
(* x is an intensity, a whole number, which binary64 holds exactly.        *)
(***************************************************************************)
digitizeFromAbove(x, bins) ==
    Cardinality({k \in DOMAIN bins : ~fle(bins[k], x - 1)})

digitize(x, bins) == Cardinality({k \in DOMAIN bins : fle(bins[k], x)})

(* calc.py lines 36-37: bins, then the level of every pixel *)
Digitized(im, mi, ma, lv) ==
    LET bins == linspace(mi, ma + 1, lv + 1)
    IN  [p \in DOMAIN im |-> digitize(im[p], bins) - 1]

(***************************************************************************)
(* calc.py lines 40-41: dx = distance*cos(deg2rad(angle)),                 *)
(* dy = distance*sin(deg2rad(-angle)), as numerators over TrigDen.         *)
(* The tables hold cos and sin of the angles drawn, in units of 1e-5.        *)
(***************************************************************************)
TrigDen == 100000

CosTable(a) ==
    CASE a = 0 -> 100000
      [] a = 60 -> 50000
      [] a = 240 -> -50000

SinTable(a) ==
    CASE a = 0 -> 0
      [] a = 60 -> 86603
      [] a = 240 -> -86603

Offset(dist, ang) == <<dist * CosTable(ang), -(dist * SinTable(ang))>>

(***************************************************************************)
(* calc.py line 42: mat = [[1, 0, -dx], [0, 1, -dy]].  Its linear part is  *)
(* the identity, so the matrix is kept as its translation column <<tx, ty>>*)
(***************************************************************************)
AffineMat(off) == <<-off[1], -off[2]>>

(***************************************************************************)
(* cv2.warpAffine, called without WARP_INVERSE_MAP, takes mat as the map   *)
(* from source to destination and inverts it before sampling:              *)
(* dst(x, y) = src(inverse(mat) applied to (x, y)).  The inverse of a      *)
(* translation is the opposite translation.                                *)
(***************************************************************************)
NotInverted(t) == t

invertAffineTransform(t) == <<-t[1], -t[2]>>

(***************************************************************************)
(* cvRound: round to nearest, ties to even, of n/d (d > 0).                *)
(***************************************************************************)
cvRound(n, d) ==
    LET q == n \div d
        r == n % d
    IN  IF 2 * r < d THEN q
        ELSE IF 2 * r > d THEN q + 1
        ELSE IF q % 2 = 0 THEN q ELSE q + 1

(***************************************************************************)
(* warpAffine with INTER_NEAREST works in fixed point with AB_BITS         *)
(* fractional bits: the source coordinate of destination coordinate c is   *)
(* (cvRound(t*AB_SCALE) + AB_SCALE/2 + c*AB_SCALE) >> AB_BITS.             *)
(***************************************************************************)
AB_BITS == 10

AB_SCALE == 2 ^ AB_BITS

NearestSrc(c, t) ==
    (cvRound(t * AB_SCALE, TrigDen) + (AB_SCALE \div 2) + c * AB_SCALE)
        \div AB_SCALE

(***************************************************************************)
(* BORDER_REPLICATE: a coordinate outside 0..len-1 takes the nearest edge. *)
(***************************************************************************)
borderReplicate(p, len) ==
    IF p < 0 THEN 0 ELSE IF p >= len THEN len - 1 ELSE p

(***************************************************************************)
(* calc.py lines 43-44: warpAffine(gl1, mat, (w, h), INTER_NEAREST,        *)
(* BORDER_REPLICATE).                                                      *)
(***************************************************************************)
warpAffine(src, t, hh, ww) ==
    LET inv == invertAffineTransform(t)
    IN  [p \in Shape(hh, ww) |->
            src[<<borderReplicate(NearestSrc(p[1], inv[2]), hh),
                  borderReplicate(NearestSrc(p[2], inv[1]), ww)>>]]

Shifted(g1, hh, ww, dist, ang) ==
    warpAffine(g1, AffineMat(Offset(dist, ang)), hh, ww)

(***************************************************************************)
(* calc.py lines 47-51: the indicator plane of the level pair (i, j).      *)
(***************************************************************************)
Mask(g1, g2, i, j) ==
    [p \in DOMAIN g1 |-> IF g1[p] = i /\ g2[p] = j THEN 1 ELSE 0]

(***************************************************************************)
(* cv2.filter2D(src, -1, kernel) with its defaults: anchor (-1, -1) is the *)
(* kernel centre ks/2 (integer division), the border is BORDER_DEFAULT =   *)
(* BORDER_REFLECT_101, and ddepth -1 keeps the source depth, uint8, so     *)
(* each sum is stored through saturate_cast<uchar>.                        *)
(***************************************************************************)
UCHAR_MAX == 255

WrapUchar(v) == v % (UCHAR_MAX + 1)

saturate_cast_uchar(v) ==
    IF v < 0 THEN 0 ELSE IF v > UCHAR_MAX THEN UCHAR_MAX ELSE v

TapsOneMore(k) == 0..k

Taps(k) == 0..(k - 1)

Anchor(k) == k \div 2

(***************************************************************************)
(* cv::borderInterpolate for BORDER_REFLECT_101 (gfedcb|abcdefgh|gfedcba): *)
(* mirror about the edge pixel, without repeating it, until inside.        *)
(***************************************************************************)
NearestEdge(p, len) == IF p < 0 THEN 0 ELSE IF p >= len THEN len - 1 ELSE p

RECURSIVE borderInterpolate(_, _)

borderInterpolate(p, len) ==
    IF 0 <= p /\ p < len THEN p
    ELSE IF len = 1 THEN 0
    ELSE IF p < 0 THEN borderInterpolate(-p, len)
    ELSE borderInterpolate(2 * len - 2 - p, len)

(***************************************************************************)
(* The source coordinates the k taps of one kernel row (or column) read    *)
(* when the kernel is anchored at coordinate c of an axis of length len.   *)
(***************************************************************************)
TapSrc(c, k, len) ==
    [t \in Taps(k) |-> borderInterpolate(c + t - Anchor(k), len)]

(* how many taps of the kernel anchored at c read source coordinate s *)
TapCount(c, s, k, len) ==
    LET from == TapSrc(c, k, len)
    IN  Cardinality({t \in Taps(k) : from[t] = s})

(***************************************************************************)
(* The tap counts of every pair of coordinates of one axis.  The           *)
(* membership test changes nothing of the value: it has TLC tabulate the   *)
(* function once instead of re-evaluating TapCount at every application.   *)
(***************************************************************************)
TapCounts(k, len) ==
    LET pairs == (0..(len - 1)) \X (0..(len - 1))
        f == [cs \in pairs |-> TapCount(cs[1], cs[2], k, len)]
    IN  IF f \in [pairs -> Nat] THEN f ELSE f

RECURSIVE SumTo(_, _)

(* f[0] + ... + f[n-1] *)
SumTo(f, n) == IF n = 0 THEN 0 ELSE f[n - 1] + SumTo(f, n - 1)

(***************************************************************************)
(* calc.py lines 53-56: correlation of one plane with the all-ones ks x ks *)
(* kernel.  Every tap weighs 1, so the sum over the taps is the sum over   *)
(* the source pixels of the value times the number of taps reading it      *)
(* (ny, nx: the tap counts along y and x).                                 *)
(***************************************************************************)
filter2D(src, ny, nx, hh, ww) ==
    [p \in Shape(hh, ww) |->
        saturate_cast_uchar(
            SumTo([sy \in 0..(hh - 1) |->
                      ny[<<p[1], sy>>] *
                      SumTo([sx \in 0..(ww - 1) |->
                                src[<<sy, sx>>] * nx[<<p[2], sx>>]], ww)],
                  hh))]

LevelRange(lv) == 0..(lv - 1)

(***************************************************************************)
(* calc.py lines 46-58: the tensor, glcm[i][j][<<y, x>>].                  *)
(* astype(float32) keeps every count (<= 255) exact.                       *)
(***************************************************************************)
Accumulated(g1, g2, lv, k, hh, ww) ==
    LET ny == TapCounts(k, hh)
        nx == TapCounts(k, ww)
    IN  [i \in LevelRange(lv) |-> [j \in LevelRange(lv) |->
            filter2D(Mask(g1, g2, i, j), ny, nx, hh, ww)]]

(***************************************************************************)
(* The statistics.  Each one calls fast_glcm with its own arguments and    *)
(* then runs "for i in range(levels): for j in range(levels): acc += ..."  *)
(* over the planes; Reduce is that double loop at one pixel, for a term    *)
(* glcm[i, j] * wt[i][j].                                                  *)
(***************************************************************************)
Reduce(wt, t, lv, p) ==
    SumTo([i \in LevelRange(lv) |->
              SumTo([j \in LevelRange(lv) |-> t[i][j][p] * wt[i][j]], lv)], lv)

(* calc.py line 71: mean += glcm[i, j] * i / (levels)**2 *)
MeanWeightColumn(i, j) == j

MeanWeight(i, j) == i

MeanWeights(lv) ==
    [i \in LevelRange(lv) |-> [j \in LevelRange(lv) |-> MeanWeight(i, j)]]

MeanDen(lv) == IF lv = 0 THEN 1 ELSE lv * lv

mean(t, lv, hh, ww) ==
    [p \in Shape(hh, ww) |-> <<Reduce(MeanWeights(lv), t, lv, p), MeanDen(lv)>>]

(* np.sqrt(x), kept as a term over the exact x *)
sqrt(x) == <<"sqrt", x>>

(***************************************************************************)
(* calc.py lines 82-93: the mean again (lines 82-85), num / den at a       *)
(* pixel, then std2 += (glcm[i, j] * i - mean)**2 over every plane, the    *)
(* empty ones too, and std = np.sqrt(std2).  std2 is a numerator over      *)
(* den * den.                                                              *)
(***************************************************************************)
std(t, lv, hh, ww) ==
    LET den == MeanDen(lv)
    IN  [p \in Shape(hh, ww) |->
            LET num == Reduce(MeanWeights(lv), t, lv, p)
            IN  sqrt(<<SumTo([i \in LevelRange(lv) |->
                                 SumTo([j \in LevelRange(lv) |->
                                           (t[i][j][p] * i * den - num) *
                                           (t[i][j][p] * i * den - num)],
                                       lv)],
                             lv),
                       den * den>>)]

(* calc.py line 105: cont += glcm[i, j] * (i - j)**2 *)
ContrastWeight(i, j) == (i - j) * (i - j)

ContrastWeights(lv) ==
    [i \in LevelRange(lv) |-> [j \in LevelRange(lv) |-> ContrastWeight(i, j)]]

contrast(t, lv, hh, ww) ==
    [p \in Shape(hh, ww) |-> Reduce(ContrastWeights(lv), t, lv, p)]

(* calc.py line 119: diss += glcm[i, j] * np.abs(i - j) *)
DissimilarityWeight(i, j) == IF i >= j THEN i - j ELSE j - i

DissimilarityWeights(lv) ==
    [i \in LevelRange(lv) |->
        [j \in LevelRange(lv) |-> DissimilarityWeight(i, j)]]

dissimilarity(t, lv, hh, ww) ==
    [p \in Shape(hh, ww) |-> Reduce(DissimilarityWeights(lv), t, lv, p)]

(***************************************************************************)
(* calc.py line 133: homo += glcm[i, j] / (1. + (i - j)**2), over the      *)
(* common denominator HomogeneityDen = product of 1 + d*d for d < levels.  *)
(***************************************************************************)
RECURSIVE HomogeneityDen(_)

HomogeneityDen(lv) ==
    IF lv <= 0 THEN 1 ELSE (1 + (lv - 1) * (lv - 1)) * HomogeneityDen(lv - 1)

(* 1 / (1 + (i - j)**2) as a numerator over HomogeneityDen(lv) *)
HomogeneityWeights(lv) ==
    [i \in LevelRange(lv) |-> [j \in LevelRange(lv) |->
        HomogeneityDen(lv) \div (1 + (i - j) * (i - j))]]

homogeneity(t, lv, hh, ww) ==
    [p \in Shape(hh, ww) |->
        <<Reduce(HomogeneityWeights(lv), t, lv, p), HomogeneityDen(lv)>>]

(* calc.py lines 145-149: asm += glcm[i, j]**2, ene = np.sqrt(asm) *)
energy(t, lv, hh, ww) ==
    [p \in Shape(hh, ww) |->
        sqrt(SumTo([i \in LevelRange(lv) |->
                       SumTo([j \in LevelRange(lv) |->
                                 t[i][j][p] * t[i][j][p]], lv)],
                   lv))]

(***************************************************************************)
(* calc.py line 158: np.max(glcm, axis=(0, 1)).  A maximum over no planes  *)
(* (levels = 0) has no identity and numpy raises ValueError.               *)
(***************************************************************************)
MaxOf(S) == CHOOSE m \in S : \A n \in S : n <= m

max(t, lv, hh, ww) ==
    IF lv = 0 THEN "ValueError"
    ELSE [p \in Shape(hh, ww) |->
             MaxOf({t[i][j][p] : i \in LevelRange(lv), j \in LevelRange(lv)})]

(***************************************************************************)
(* calc.py lines 167-168:                                                  *)
(*   pnorm = glcm / np.sum(glcm, axis=(0, 1)) + 1. / ks**2                 *)
(*   ent = np.sum(-pnorm * np.log(pnorm), axis=(0, 1))                     *)
(* At a pixel whose planes sum to total, pnorm of the plane <<i, j>> is    *)
(* the exact rational <<glcm[i, j] * ks**2 + total, total * ks**2>>.       *)
(* Where no pair of the window has both levels in range total is 0, pnorm  *)
(* is 0/0 and the entropy is nan (numpy warns and goes on).  A sum over no *)
(* planes (levels = 0) is 0.                                               *)
(***************************************************************************)
pnorm(t, lv, k, p) ==
    LET total == Reduce([i \in LevelRange(lv) |-> [j \in LevelRange(lv) |-> 1]],
                        t, lv, p)
    IN  [ij \in LevelRange(lv) \X LevelRange(lv) |->
            <<t[ij[1]][ij[2]][p] * k * k + total, total * k * k>>]

(* the sum of -p * np.log(p) over the family pn, kept as a term: each p    *)
(* with the number of planes that have it                                  *)
SumNegPLogP(pn) ==
    <<"sum -p*log(p)",
      [v \in {pn[ij] : ij \in DOMAIN pn} |->
          Cardinality({ij \in DOMAIN pn : pn[ij] = v})]>>

entropy(t, lv, k, hh, ww) ==
    [p \in Shape(hh, ww) |->
        LET pn == pnorm(t, lv, k, p)
        IN  IF lv = 0 THEN 0
            ELSE IF \E ij \in DOMAIN pn : pn[ij][2] = 0 THEN "nan"
            ELSE SumNegPLogP(pn)]

(***************************************************************************)
(* State machine: one call per behaviour.                                  *)
(***************************************************************************)
InitFrom(shapes, values, ranges, lvs, kss, dists, angles) ==
    /\ \E s \in shapes : h = s[1] /\ w = s[2]
    /\ img \in [Shape(h, w) -> values]
    /\ \E r \in ranges : vmin = r[1] /\ vmax = r[2]
    /\ levels \in lvs
    /\ ks \in kss
    /\ distance \in dists
    /\ angle \in angles
    /\ pc = "start"
    /\ call = None
    /\ gl1 = None
    /\ gl2 = None
    /\ glcm = None
    /\ out = None

(* calls with valid arguments *)
Init ==
    InitFrom(Shapes, Intensities, Ranges, LevelsSet, KernelSizes, Distances,
             Angles)

(* calls with any arguments, valid or not, on the small images *)
InitAny ==
    InitFrom(SmallShapes, Intensities, Ranges \cup BadRanges,
             LevelsSet \cup BadLevels, KernelSizes,
             Distances \cup BadDistances, Angles)

(* calls with valid arguments, for the quantization: every levels *)
InitQuant ==
    InitFrom(RowShapes, QuantIntensities, QuantRanges, QuantLevels, {1}, {1},
             {0})

(* calc.py lines 35-37 *)
Digitize ==
    /\ pc = "start"
    /\ gl1' = Digitized(img, vmin, vmax, levels)
    /\ pc' = "digitized"
    /\ UNCHANGED <<args, call, gl2, glcm, out>>

(* calc.py lines 39-44 *)
Shift ==
    /\ pc = "digitized"
    /\ gl2' = Shifted(gl1, h, w, distance, angle)
    /\ pc' = "shifted"
    /\ UNCHANGED <<args, call, gl1, glcm, out>>

(* calc.py lines 46-58 *)
Accumulate ==
    /\ pc = "shifted"
    /\ glcm' = Accumulated(gl1, gl2, levels, ks, h, w)
    /\ pc' = "built"
    /\ UNCHANGED <<args, call, gl1, gl2, out>>

(***************************************************************************)
(* The tensor is built; the function that was called returns.  fast_glcm   *)
(* returns the tensor itself (line 59), a statistic returns its reduction  *)
(* of the tensor it had fast_glcm build from its own arguments.            *)
(***************************************************************************)
Return(name, value, raised) ==
    /\ call' = name
    /\ out' = value
    /\ pc' = IF raised THEN "raised" ELSE "returned"
    /\ UNCHANGED <<args, gl1, gl2, glcm>>

(* calc.py lines 6-59 *)
ReturnGlcm ==
    /\ pc = "built"
    /\ Return("fast_glcm", glcm, FALSE)

(* calc.py lines 62-73 *)
Mean ==
    /\ pc = "built"
    /\ Return("mean", mean(glcm, levels, h, w), FALSE)

(* calc.py lines 76-93 *)
Std ==
    /\ pc = "built"
    /\ Return("std", std(glcm, levels, h, w), FALSE)

(* calc.py lines 96-107 *)
Contrast ==
    /\ pc = "built"
    /\ Return("contrast", contrast(glcm, levels, h, w), FALSE)

(* calc.py lines 110-121 *)
Dissimilarity ==
    /\ pc = "built"
    /\ Return("dissimilarity", dissimilarity(glcm, levels, h, w), FALSE)

(* calc.py lines 124-135 *)
Homogeneity ==
    /\ pc = "built"
    /\ Return("homogeneity", homogeneity(glcm, levels, h, w), FALSE)

(* calc.py lines 138-150 *)
Energy ==
    /\ pc = "built"
    /\ Return("energy", energy(glcm, levels, h, w), FALSE)

(* calc.py lines 153-159 *)
Max ==
    /\ pc = "built"
    /\ Return("max", max(glcm, levels, h, w), levels = 0)

(* calc.py lines 162-169 *)
Entropy ==
    /\ pc = "built"
    /\ Return("entropy", entropy(glcm, levels, ks, h, w), FALSE)

Next ==
    \/ Digitize
    \/ Shift
    \/ Accumulate
    \/ ReturnGlcm
    \/ Mean
    \/ Std
    \/ Contrast
    \/ Dissimilarity
    \/ Homogeneity
    \/ Energy
    \/ Max
    \/ Entropy

Spec == Init /\ [][Next]_vars

SpecAny == InitAny /\ [][Next]_vars

(* the first step of every call, calc.py lines 35-37, and no further *)
SpecQuant == InitQuant /\ [][Digitize]_vars

(***************************************************************************)
(* Vocabulary of the properties.                                           *)
(***************************************************************************)
ValidArgs == vmin < vmax /\ levels >= 1 /\ ks >= 1 /\ distance > 0

HasLevels == pc # "start"

HasShift == pc \notin {"start", "digitized"}

HasTensor == pc \in {"built", "returned", "raised"}

Returned(name) == pc = "returned" /\ call = name

LevelPairs == LevelRange(levels) \X LevelRange(levels)

Flat == \A p, q \in Pixels : img[p] = img[q]

RECURSIVE FnSum(_, _)

(* the sum of f over the finite set S *)
FnSum(f, S) ==
    IF S = {} THEN 0
    ELSE LET x == CHOOSE x \in S : TRUE IN f[x] + FnSum(f, S \ {x})

(* the tensor summed over the level pairs, each weighted by wt, at pixel p *)
Weighted(t, wt, p) ==
    FnSum([ij \in LevelPairs |-> t[ij[1]][ij[2]][p] * wt[ij]], LevelPairs)

(* position c of an axis of length len mirrored about the edge pixels *)
Reflect101(c, len) ==
    IF len = 1 THEN 0
    ELSE LET m == c % (2 * (len - 1))
         IN  IF m < len THEN m ELSE 2 * (len - 1) - m

(* position c of an axis of length len moved to the nearest edge *)
Clamp(c, len) == IF c < 0 THEN 0 ELSE IF c > len - 1 THEN len - 1 ELSE c

(* the ks x ks window of p: offsets -(ks/2) .. ks-1-(ks/2) on each axis *)
WindowAxis == (0 - ks \div 2)..(ks - 1 - ks \div 2)

Window == WindowAxis \X WindowAxis

(* the window positions of p that, mirrored into the image, land on q *)
Landing(p, q) ==
    {dy \in WindowAxis : Reflect101(p[1] + dy, h) = q[1]}
        \X {dx \in WindowAxis : Reflect101(p[2] + dx, w) = q[2]}

(***************************************************************************)
(* The number of positions of the window of p at which gl1 = i and         *)
(* gl2 = j, a position outside the image taking the pixel mirrored about   *)
(* the edge pixel.                                                         *)
(***************************************************************************)
WindowCount(i, j, p) ==
    LET at == {q \in Pixels : gl1[q] = i /\ gl2[q] = j}
    IN  FnSum([q \in at |-> Cardinality(Landing(p, q))], at)

(* an offset of n/TrigDen pixels in whole pixels: to 1/AB_SCALE, then to   *)
(* the nearest pixel, halves up                                            *)
WholePixels(n) ==
    ((2 * n * AB_SCALE + TrigDen) \div (2 * TrigDen) + AB_SCALE \div 2)
        \div AB_SCALE

Dx == distance * CosTable(angle)

Dy == 0 - distance * SinTable(angle)

(***************************************************************************)
(* C1: for valid arguments the tensor sums, over all level pairs, to       *)
(* kernel_size^2 at every pixel.                                           *)
(***************************************************************************)
C1_TensorSumsToWindowArea ==
    (ValidArgs /\ HasTensor) =>
        \A p \in Pixels :
            Weighted(glcm, [ij \in LevelPairs |-> 1], p) = ks * ks

(***************************************************************************)
(* C2: quantization gives every pixel a level in 0..levels-1: the          *)
(* equal-width bin of an intensity in [vmin, vmax], level 0 below vmin,    *)
(* level levels-1 above vmax.                                              *)
(***************************************************************************)
C2_QuantizationClamps ==
    (ValidArgs /\ HasLevels) =>
        \A p \in Pixels :
            /\ gl1[p] \in 0..(levels - 1)
            /\ img[p] < vmin => gl1[p] = 0
            /\ img[p] > vmax => gl1[p] = levels - 1
            /\ img[p] \in vmin..vmax =>
                   gl1[p] = ((img[p] - vmin) * levels) \div (vmax + 1 - vmin)

(***************************************************************************)
(* C3: a call with invalid arguments ends in InvalidParameter at entry:    *)
(* it never quantizes, shifts, accumulates or returns.                     *)
(***************************************************************************)
C3_InvalidArgsRejectedAtEntry ==
    ~ValidArgs =>
        /\ pc \in {"start", "raised"}
        /\ pc = "raised" => out = "InvalidParameter"

(***************************************************************************)
(* C4: for valid arguments every value of the tensor is a count in         *)
(* 0..kernel_size^2, and so is max(image) at every pixel.                  *)
(***************************************************************************)
C4_CountsWithinWindowArea ==
    (ValidArgs /\ HasTensor) =>
        /\ \A ij \in LevelPairs : \A p \in Pixels :
               glcm[ij[1]][ij[2]][p] \in 0..(ks * ks)
        /\ Returned("max") => \A p \in Pixels : out[p] \in 0..(ks * ks)

C4_Witness ==
    /\ ValidArgs
    /\ Returned("max")
    /\ ks = 3
    /\ \E p \in Pixels : out[p] = ks * ks
    /\ \E p \in Pixels : out[p] < ks * ks

(***************************************************************************)
(* C5: on a flat image with valid arguments, q the level of its intensity: *)
(* tensor[q][q] is kernel_size^2 and every other plane 0, at every pixel;  *)
(* contrast is 0 and homogeneity kernel_size^2 everywhere.                 *)
(***************************************************************************)
C5_FlatImage ==
    (ValidArgs /\ Flat /\ pc = "returned") =>
        LET q == gl1[<<0, 0>>]
        IN  /\ q \in LevelRange(levels)
            /\ \A ij \in LevelPairs : \A p \in Pixels :
                   glcm[ij[1]][ij[2]][p] =
                       IF ij = <<q, q>> THEN ks * ks ELSE 0
            /\ call = "contrast" => \A p \in Pixels : out[p] = 0
            /\ call = "homogeneity" =>
                   \A p \in Pixels : out[p][1] = ks * ks * out[p][2]

(***************************************************************************)
(* C6: each statistic is the reduction of the tensor fast_glcm builds from *)
(* the same arguments, on raw counts, one value per pixel of the image:    *)
(* contrast = sum of tensor*(i-j)^2, dissimilarity = sum of tensor*|i-j|,  *)
(* levels^2 * mean = sum of tensor*i.                                      *)
(***************************************************************************)
C6_StatisticsReduceTensor ==
    (ValidArgs /\ pc = "returned") =>
        /\ call = "contrast" =>
               /\ DOMAIN out = Pixels
               /\ \A p \in Pixels :
                      out[p] = Weighted(glcm,
                                   [ij \in LevelPairs |-> (ij[1] - ij[2]) ^ 2], p)
        /\ call = "dissimilarity" =>
               /\ DOMAIN out = Pixels
               /\ \A p \in Pixels :
                      out[p] = Weighted(glcm,
                                   [ij \in LevelPairs |->
                                       IF ij[1] > ij[2] THEN ij[1] - ij[2]
                                                        ELSE ij[2] - ij[1]], p)
        /\ call = "mean" =>
               /\ DOMAIN out = Pixels
               /\ \A p \in Pixels :
                      levels * levels * out[p][1] =
                          out[p][2] * Weighted(glcm,
                                          [ij \in LevelPairs |-> ij[1]], p)

C6_Witness ==
    /\ ValidArgs
    /\ Returned("mean")
    /\ levels = 4
    /\ \E p \in Pixels :
           /\ out[p][1] > 0
           /\ \E ij \in LevelPairs :
                  ij[1] # ij[2] /\ glcm[ij[1]][ij[2]][p] > 0

(***************************************************************************)
(* C7: quantization is monotonic: of two intensities, inside or outside    *)
(* [vmin, vmax], the smaller never gets the larger level: of two pixels of *)
(* the image, and of every two consecutive intensities 0..255 under the    *)
(* arguments of the call (so, by transitivity, of any two).  The levels of *)
(* the intensities depend on vmin, vmax and levels only: they are swept in *)
(* the calls on one-pixel images, which draw every (vmin, vmax, levels).   *)
(* The bin edges are the binary64 numbers of the source, the ones that     *)
(* miss a whole number included.                                           *)
(***************************************************************************)
C7_QuantizationMonotonic ==
    (ValidArgs /\ HasLevels) =>
        /\ \A p, q \in Pixels : img[p] < img[q] => gl1[p] <= gl1[q]
        /\ (pc = "digitized" /\ h * w = 1) =>
               LET bins == linspace(vmin, vmax + 1, levels + 1)
               IN  \A a \in 0..254 : digitize(a, bins) <= digitize(a + 1, bins)

(* the intensity of p lies on a bin edge that binary64 puts above it *)
OnEdgeRoundedUp(p) ==
    /\ img[p] \in vmin..vmax
    /\ ((img[p] - vmin) * levels) % (vmax + 1 - vmin) = 0
    /\ gl1[p] < ((img[p] - vmin) * levels) \div (vmax + 1 - vmin)

C7_Witness ==
    /\ ValidArgs
    /\ HasLevels
    /\ \E p, q \in Pixels :
           img[p] < vmin /\ img[q] \in vmin..vmax /\ gl1[p] < gl1[q]
    /\ \E p, q \in Pixels :
           img[p] \in vmin..vmax /\ img[q] > vmax /\ gl1[p] < gl1[q]
    /\ \E p \in Pixels : OnEdgeRoundedUp(p)

(* the offset is a whole number of pixels: nothing is left to round *)
WholeOffset == Dx % TrigDen = 0 /\ Dy % TrigDen = 0

(***************************************************************************)
(* C8 as written: gl2 is gl1 sampled at the position moved by the negative *)
(* offset, gl2(x, y) = gl1(clampX(round(x - dx)), clampY(round(y - dy))).  *)
(* Stated for the offsets of whole pixels, as in the claim's example       *)
(* (distance 1, angle 0: the left neighbour), where it rests on no         *)
(* rounding rule.                                                          *)
(***************************************************************************)
C8_ShiftSamplesBehind ==
    (ValidArgs /\ HasShift /\ WholeOffset) =>
        \A p \in Pixels :
            gl2[p] = gl1[<<Clamp(p[1] + WholePixels(0 - Dy), h),
                           Clamp(p[2] + WholePixels(0 - Dx), w)>>]

(***************************************************************************)
(* C8 amended: gl2 is gl1 sampled at the position moved by the offset      *)
(* itself, gl2(x, y) = gl1(clampX(x + round(dx)), clampY(y + round(dy))).  *)
(***************************************************************************)
C8_ShiftSamplesAhead ==
    (ValidArgs /\ HasShift) =>
        \A p \in Pixels :
            gl2[p] = gl1[<<Clamp(p[1] + WholePixels(Dy), h),
                           Clamp(p[2] + WholePixels(Dx), w)>>]

C8_Witness ==
    /\ ValidArgs
    /\ pc = "shifted"
    /\ distance = 1
    /\ angle = 0
    /\ w = 3
    /\ gl1[<<0, 0>>] # gl1[<<0, 1>>]
    /\ gl1[<<0, 1>>] # gl1[<<0, 2>>]
    /\ gl2[<<0, 0>>] = gl1[<<0, 1>>]
    /\ gl2[<<0, 1>>] = gl1[<<0, 2>>]
    /\ gl2[<<0, 2>>] = gl1[<<0, 2>>]

(* the count of (i, j) in the window of p with the border replicated *)
ReplicatedCount(i, j, p) ==
    Cardinality({d \in Window :
        LET q == <<Clamp(p[1] + d[1], h), Clamp(p[2] + d[2], w)>>
        IN  gl1[q] = i /\ gl2[q] = j})

(***************************************************************************)
(* C9 as written: tensor[i][j](x, y) is the number of window positions     *)
(* with gl1 = i and gl2 = j, positions outside the image taking the        *)
(* nearest edge pixel.  Stated for the windows of at most 255 positions,   *)
(* whose counts the 8-bit store of C10 leaves as they are.                 *)
(***************************************************************************)
C9_WindowCountsReplicated ==
    (ValidArgs /\ Returned("fast_glcm") /\ ks * ks <= 255) =>
        \A ij \in LevelPairs : \A p \in Pixels :
            out[ij[1]][ij[2]][p] = ReplicatedCount(ij[1], ij[2], p)

(***************************************************************************)
(* C9 amended: tensor[i][j](x, y) is the number of window positions with   *)
(* gl1 = i and gl2 = j, positions outside the image taking the pixel       *)
(* mirrored about the edge pixel, stored as at most 255.                   *)
(***************************************************************************)
C9_WindowCountsMirrored ==
    (ValidArgs /\ Returned("fast_glcm")) =>
        \A ij \in LevelPairs : \A p \in Pixels :
            out[ij[1]][ij[2]][p] =
                LET n == WindowCount(ij[1], ij[2], p)
                IN  IF n > 255 THEN 255 ELSE n

C9_Witness ==
    /\ ValidArgs
    /\ Returned("fast_glcm")
    /\ ks = 3
    /\ h = 1
    /\ w = 2
    /\ \E ij \in LevelPairs :
           /\ gl1[<<0, 1>>] = ij[1]
           /\ gl2[<<0, 1>>] = ij[2]
           /\ gl1[<<0, 0>>] # ij[1]
           /\ out[ij[1]][ij[2]][<<0, 0>>] = 6
           /\ ReplicatedCount(ij[1], ij[2], <<0, 0>>) = 3

(***************************************************************************)
(* C10: the counts are stored as unsigned 8-bit values: every value        *)
(* fast_glcm returns is at most 255, and a window with more than 255       *)
(* matching pairs (kernel_size >= 16) is stored as 255, below its count.   *)
(***************************************************************************)
C10_CountsSaturate ==
    Returned("fast_glcm") =>
        \A ij \in LevelPairs : \A p \in Pixels :
            /\ out[ij[1]][ij[2]][p] <= 255
            /\ WindowCount(ij[1], ij[2], p) > 255 =>
                   /\ ks >= 16
                   /\ out[ij[1]][ij[2]][p] = 255

C10_Witness ==
    /\ Returned("fast_glcm")
    /\ ks = 16
    /\ \E ij \in LevelPairs : \E p \in Pixels :
           /\ WindowCount(ij[1], ij[2], p) = 256
           /\ out[ij[1]][ij[2]][p] = 255

====
